---- MODULE Spec2Model ----
(***************************************************************************)
(* Progressive scan engine of the GitHub issue analysis backend.           *)
(*                                                                         *)
(* The database layer (Issue and ScanProgress tables and every function    *)
(* over them) and the GitHub page fetcher are modelled from the source.    *)
(* The request handler that drives them (load checkpoint, reset or resume, *)
(* fetch / append / update loop, rate-limit pause, completion) is not part *)
(* of the sources: the handler kept in routes/scan.ts is the earlier       *)
(* one-shot revision, which calls fetchOpenIssues (no longer exported by   *)
(* services/github.ts) and never touches a checkpoint.  The handler is     *)
(* therefore modelled from section 4.1 of the specification.               *)
(*                                                                         *)
(* Every await of the code is one step, so that a crash, or another        *)
(* request, can fall between any two database calls.                       *)
(*                                                                         *)
(* Time is counted in ticks; RateWindow ticks are one GitHub quota window  *)
(* (3 600 000 ms in the code).                                             *)
(***************************************************************************)
EXTENDS Integers, Sequences, FiniteSets, TLC

\* ------------------------------------------------------------- bounds
MaxIssues == 5
PerPage == 2
MaxTime == 3
QuotaLimit == 5
MaxRev == 1
ServedCap == 2

\* ------------------------------------------------- program constants
RateLimitThreshold == 3
RateWindow == 2
NullCursor == 0
Null == -1

Repos == {"a/x", "b/y"}
Procs == {"p1", "p2"}

VARIABLES
    now,            \* wall clock (Date.now())
    srcTotal,       \* number of open issues of each repository at GitHub
    srcRev,         \* revision of the issues' content at GitHub
    quotaRemaining, \* GitHub's rateLimit.remaining
    quotaResetAt,   \* GitHub's rateLimit.resetAt
    issues,         \* table Issue
    scanProgress,   \* table ScanProgress
    req,            \* the requests in flight: locals and position
    resp,           \* the last response sent for each request slot
    served,         \* ghost: pages GitHub served since the checkpoint's reset
    rlResp,         \* ghost: the response of the call that recorded the rate limit
    persisted,      \* ghost: pages whose checkpoint was written since the reset
    call            \* the call served outside the scan loop: its input, position and result

vars == <<now, srcTotal, srcRev, quotaRemaining, quotaResetAt, issues,
          scanProgress, req, resp, served, rlResp, persisted, call>>

\* ------------------------------------------------------------ GitHub
MaxPages == (MaxIssues + PerPage - 1) \div PerPage

NumPages(repo) == (srcTotal[repo] + PerPage - 1) \div PerPage

PageOf(id) == ((id - 1) \div PerPage) + 1

PageIds(repo, page) == {id \in 1..srcTotal[repo] : PageOf(id) = page}

\* One node of the GraphQL response mapped to a GitHubIssue.
Node(id) ==
    [id |-> id, title |-> srcRev, body |-> srcRev, html_url |-> srcRev,
     created_at |-> id]

RECURSIVE NodesFrom(_, _)
NodesFrom(lo, hi) ==
    IF lo > hi THEN <<>> ELSE <<Node(lo)>> \o NodesFrom(lo + 1, hi)

Min(a, b) == IF a < b THEN a ELSE b

\* issues(first: 100, after: $cursor): the page that follows the cursor.
PageNodes(repo, cursor) ==
    NodesFrom(cursor * PerPage + 1, Min((cursor + 1) * PerPage, srcTotal[repo]))

HasNextPage(repo, cursor) == (cursor + 1) * PerPage < srcTotal[repo]

EndCursor(repo, cursor) ==
    IF Len(PageNodes(repo, cursor)) = 0 THEN NullCursor ELSE cursor + 1

\* ---------------------------------------------------------- database
IssuesOf(repo) == {r \in issues : r.repo = repo}

ProgressOf(repo) == {c \in scanProgress : c.repo = repo}

\* Variant of the delete without the where clause.
DeleteIssuesEverywhere(tbl, repo) == {}

\* prisma.issue.deleteMany({ where: { repo } })
DeleteIssues(tbl, repo) == {r \in tbl : r.repo # repo}

\* Variant of the upsert that always takes the create branch.
UpsertIssueAlwaysCreates(tbl, repo, issue) ==
    tbl \cup {[repo |-> repo, githubId |-> issue.id, title |-> issue.title,
               body |-> issue.body, htmlUrl |-> issue.html_url,
               createdAt |-> issue.created_at]}

\* prisma.issue.upsert on the unique key (repo, githubId)
UpsertIssue(tbl, repo, issue) ==
    LET hit(r) == r.repo = repo /\ r.githubId = issue.id
    IN  IF \E r \in tbl : hit(r)
        THEN {IF hit(r)
              THEN [r EXCEPT !.title = issue.title, !.body = issue.body,
                             !.htmlUrl = issue.html_url,
                             !.createdAt = issue.created_at]
              ELSE r : r \in tbl}
        ELSE tbl \cup {[repo |-> repo, githubId |-> issue.id,
                        title |-> issue.title, body |-> issue.body,
                        htmlUrl |-> issue.html_url,
                        createdAt |-> issue.created_at]}

\* prisma.scanProgress.upsert of createOrResetScanProgress
CreateOrResetRow(tbl, repo) ==
    IF \E c \in tbl : c.repo = repo
    THEN {IF c.repo = repo
          THEN [c EXCEPT !.status = "in_progress", !.currentPage = 0,
                         !.issuesFetched = 0, !.totalPages = Null,
                         !.errorMessage = "none", !.nextRetryAt = Null]
          ELSE c : c \in tbl}
    ELSE tbl \cup {[repo |-> repo, status |-> "in_progress", currentPage |-> 0,
                    issuesFetched |-> 0, totalPages |-> Null,
                    errorMessage |-> "none", nextRetryAt |-> Null,
                    cursor |-> NullCursor]}

\* Variant of the update without the where clause: every row is written.
UpdateRowEverywhere(tbl, repo, updates) ==
    {[f \in DOMAIN c |-> IF f \in DOMAIN updates THEN updates[f] ELSE c[f]] :
        c \in tbl}

\* prisma.scanProgress.update({ where: { repo }, data: updates })
UpdateRow(tbl, repo, updates) ==
    {IF c.repo = repo
     THEN [f \in DOMAIN c |-> IF f \in DOMAIN updates THEN updates[f] ELSE c[f]]
     ELSE c : c \in tbl}

\* Variant of updateScanProgress that does not write the cursor.
UpdateScanProgressLosesCursor(tbl, repo, updates) ==
    UpdateRow(tbl, repo, [f \in DOMAIN updates \ {"cursor"} |-> updates[f]])

\* Variant of updateScanProgress that does not write the status.
UpdateScanProgressKeepsStatus(tbl, repo, updates) ==
    UpdateRow(tbl, repo, [f \in DOMAIN updates \ {"status"} |-> updates[f]])

\* updateScanProgress
UpdateScanProgress(tbl, repo, updates) == UpdateRow(tbl, repo, updates)

CompleteScan(tbl, repo, totalIssues) ==
    UpdateRow(tbl, repo, [status |-> "completed", issuesFetched |-> totalIssues,
                          errorMessage |-> "none", nextRetryAt |-> Null])

\* Variant of failScan that writes with an upsert: it creates the row it
\* does not find.
FailScanUpserts(tbl, repo, errorMessage) ==
    IF \E c \in tbl : c.repo = repo
    THEN UpdateRow(tbl, repo, [status |-> "failed", errorMessage |-> errorMessage])
    ELSE tbl \cup {[repo |-> repo, status |-> "failed", currentPage |-> 0,
                    issuesFetched |-> 0, totalPages |-> Null,
                    errorMessage |-> errorMessage, nextRetryAt |-> Null,
                    cursor |-> NullCursor]}

\* failScan
FailScan(tbl, repo, errorMessage) ==
    UpdateRow(tbl, repo, [status |-> "failed", errorMessage |-> errorMessage])

\* Variant of setRateLimitRetry that marks the scan failed, as failScan does.
SetRateLimitRetryFails(tbl, repo, retryAt) ==
    UpdateRow(tbl, repo, [status |-> "failed", nextRetryAt |-> retryAt,
                          errorMessage |-> "rate_limited"])

\* setRateLimitRetry
SetRateLimitRetry(tbl, repo, retryAt) ==
    UpdateRow(tbl, repo, [nextRetryAt |-> retryAt, errorMessage |-> "rate_limited"])

\* ---------------------------------------------------------- requests
Idle ==
    [pc |-> "idle", repo |-> "a/x", fresh |-> FALSE, resumed |-> FALSE,
     cursor |-> NullCursor, page |-> 0, count |-> 0, batch |-> <<>>, idx |-> 0,
     endCursor |-> NullCursor, hasNext |-> FALSE, retryAt |-> Null,
     startCursor |-> NullCursor, calls |-> 0, err |-> "none",
     inWindow |-> FALSE, resetDue |-> FALSE]

NoResp ==
    [kind |-> "none", repo |-> "a/x", status |-> "none", page |-> 0, count |-> 0,
     nextCallAllowedAt |-> Null, calls |-> 0]

\* The sources scanned: "a/x" is empty, ends on a full page or ends on a partial
\* page; "b/y" is a single partial page.
SourceSizes ==
    {[r \in Repos |-> IF r = "a/x" THEN n ELSE PerPage - 1] :
        n \in {0, MaxIssues - 1, MaxIssues}}

NoServed == [p \in 1..(MaxPages + 1) |-> 0]

\* No call outside the scan loop is being served.
NoCall == [op |-> "none"]

InitStore ==
    /\ now = 0
    /\ srcTotal \in SourceSizes
    /\ srcRev = 0
    /\ quotaRemaining = QuotaLimit
    /\ quotaResetAt = RateWindow
    /\ issues = {}
    /\ scanProgress = {}
    /\ req = [p \in Procs |-> Idle]
    /\ resp = [p \in Procs |-> NoResp]
    /\ served = [r \in Repos |-> NoServed]
    /\ rlResp = [r \in Repos |-> NoResp]
    /\ persisted = [r \in Repos |-> {}]

Init == InitStore /\ call = NoCall


TypeOK ==
    /\ now \in 0..MaxTime
    /\ srcRev \in 0..MaxRev
    /\ quotaRemaining \in 0..QuotaLimit
    /\ \A c \in scanProgress : c.repo \in Repos
    /\ \A r \in issues : r.repo \in Repos

\* ----------------------------------------------------- page fetcher
\* What GitHub answers to ISSUES_QUERY.  fault is the environment's choice:
\* the repository is unknown, the transport fails, or the query is served.
\* A served query costs one call of the quota, which GitHub refills once the
\* reset instant has passed; with no call left GitHub refuses the query.
QuotaBefore == IF now >= quotaResetAt THEN QuotaLimit ELSE quotaRemaining

ResetBefore == IF now >= quotaResetAt THEN now + RateWindow ELSE quotaResetAt

Graphql(repo, cursor, fault) ==
    [status |-> IF fault # "none" THEN fault
                ELSE IF QuotaBefore = 0 THEN "rate limit" ELSE "ok",
     remaining |-> IF fault = "none" /\ QuotaBefore > 0
                   THEN QuotaBefore - 1 ELSE QuotaBefore,
     resetAt |-> ResetBefore,
     nodes |-> PageNodes(repo, cursor),
     hasNextPage |-> HasNextPage(repo, cursor),
     endCursor |-> EndCursor(repo, cursor)]

Served(response) == response.status = "ok"

\* Variant of fetchIssuesWithCursor whose catch does not rethrow the
\* RateLimitError of the guard: its message matches neither "Could not resolve"
\* nor "rate limit", so it ends as the generic failure.
FetchIssuesWithCursorNoRethrow(response) ==
    IF response.status = "ok" /\ response.remaining >= RateLimitThreshold
    THEN [kind |-> "page", issues |-> response.nodes,
          hasNextPage |-> response.hasNextPage,
          endCursor |-> response.endCursor, resetAt |-> Null, waitMs |-> 0]
    ELSE IF response.status = "not_found"
    THEN [kind |-> "NotFound", issues |-> <<>>, hasNextPage |-> FALSE,
          endCursor |-> NullCursor, resetAt |-> Null, waitMs |-> 0]
    ELSE IF response.status = "rate limit"
    THEN [kind |-> "RateLimitError", issues |-> <<>>, hasNextPage |-> FALSE,
          endCursor |-> NullCursor, resetAt |-> now + RateWindow,
          waitMs |-> (now + RateWindow) - now]
    ELSE [kind |-> "Error", issues |-> <<>>, hasNextPage |-> FALSE,
          endCursor |-> NullCursor, resetAt |-> Null, waitMs |-> 0]

\* fetchIssuesWithCursor: the outcome for one response of GitHub.
FetchIssuesWithCursor(response) ==
    IF response.status = "ok"
    THEN IF response.remaining < RateLimitThreshold
         THEN [kind |-> "RateLimitError", issues |-> <<>>, hasNextPage |-> FALSE,
               endCursor |-> NullCursor, resetAt |-> response.resetAt,
               waitMs |-> response.resetAt - now]
         ELSE [kind |-> "page", issues |-> response.nodes,
               hasNextPage |-> response.hasNextPage,
               endCursor |-> response.endCursor, resetAt |-> Null, waitMs |-> 0]
    ELSE IF response.status = "not_found"
    THEN [kind |-> "NotFound", issues |-> <<>>, hasNextPage |-> FALSE,
          endCursor |-> NullCursor, resetAt |-> Null, waitMs |-> 0]
    ELSE IF response.status = "rate limit"
    THEN [kind |-> "RateLimitError", issues |-> <<>>, hasNextPage |-> FALSE,
          endCursor |-> NullCursor, resetAt |-> now + RateWindow,
          waitMs |-> (now + RateWindow) - now]
    ELSE [kind |-> "Error", issues |-> <<>>, hasNextPage |-> FALSE,
          endCursor |-> NullCursor, resetAt |-> Null, waitMs |-> 0]

\* Variant of getScanProgress that never finds a row.
GetScanProgressNone(repo) == {}

\* getScanProgress: the row of the repository, or none.
GetScanProgress(repo) == ProgressOf(repo)

\* appendIssues returns the number of upserts it made.
AppendCount(batch) == Len(batch)

\* ------------------------------------------------- the scan handler
InRetryWindow(c) == c.nextRetryAt # Null /\ now < c.nextRetryAt

MustReset(repo, fresh) ==
    \/ GetScanProgress(repo) = {}
    \/ fresh
    \/ \E c \in GetScanProgress(repo) : c.status = "completed"

\* Ghosts recorded when a request arrives, read from the tables themselves:
\* was the checkpoint inside its retry window, and was a reset due.
ArrivedInWindow(repo) == \E c \in ProgressOf(repo) : InRetryWindow(c)

ResetDue(repo, fresh) ==
    \/ ProgressOf(repo) = {}
    \/ fresh
    \/ \E c \in ProgressOf(repo) : c.status = "completed"

Reply(p, r) == resp' = [resp EXCEPT ![p] = r]

\* A scan request arrives: load the checkpoint and decide between reset,
\* immediate return inside the retry window, and resume.
Start(p, repo, fresh) ==
    /\ req[p].pc = "idle"
    /\ IF MustReset(repo, fresh)
       THEN /\ req' = [req EXCEPT ![p] = [Idle EXCEPT !.pc = "resetDelete",
                                                     !.repo = repo, !.fresh = fresh,
                                                     !.inWindow = ArrivedInWindow(repo),
                                                     !.resetDue = ResetDue(repo, fresh)]]
            /\ Reply(p, NoResp)
       ELSE LET c == CHOOSE c \in GetScanProgress(repo) : TRUE
            IN  IF InRetryWindow(c)
                THEN /\ req' = req
                     /\ Reply(p, [kind |-> "ok", repo |-> repo,
                                  status |-> "rate_limited", page |-> c.currentPage,
                                  count |-> c.issuesFetched,
                                  nextCallAllowedAt |-> c.nextRetryAt, calls |-> 0])
                ELSE /\ req' = [req EXCEPT ![p] =
                                  [Idle EXCEPT !.pc = "clear", !.repo = repo,
                                               !.fresh = fresh, !.resumed = TRUE,
                                               !.inWindow = ArrivedInWindow(repo),
                                               !.resetDue = ResetDue(repo, fresh),
                                               !.cursor = c.cursor,
                                               !.startCursor = c.cursor,
                                               !.page = c.currentPage,
                                               !.count = c.issuesFetched]]
                     /\ Reply(p, NoResp)
    /\ UNCHANGED <<call, now, srcTotal, srcRev, quotaRemaining, quotaResetAt, issues,
                   scanProgress, served, rlResp, persisted>>

\* createOrResetScanProgress, first await: the cached issues are deleted.
ResetDelete(p) ==
    /\ req[p].pc = "resetDelete"
    /\ issues' = DeleteIssues(issues, req[p].repo)
    /\ req' = [req EXCEPT ![p].pc = "resetUpsert"]
    /\ UNCHANGED <<call, now, srcTotal, srcRev, quotaRemaining, quotaResetAt,
                   scanProgress, resp, served, rlResp, persisted>>

\* createOrResetScanProgress, second await: the checkpoint row is upserted
\* and returned; the handler continues from the row it got back.
ResetUpsert(p) ==
    /\ req[p].pc = "resetUpsert"
    /\ scanProgress' = CreateOrResetRow(scanProgress, req[p].repo)
    /\ LET c == CHOOSE c \in scanProgress' : c.repo = req[p].repo
       IN  req' = [req EXCEPT ![p].pc = "clear", ![p].cursor = c.cursor,
                              ![p].startCursor = c.cursor,
                              ![p].page = c.currentPage,
                              ![p].count = c.issuesFetched]
    /\ served' = [served EXCEPT ![req[p].repo] = NoServed]
    /\ rlResp' = [rlResp EXCEPT ![req[p].repo] = NoResp]
    /\ persisted' = [persisted EXCEPT ![req[p].repo] = {}]
    /\ UNCHANGED <<call, now, srcTotal, srcRev, quotaRemaining, quotaResetAt, issues, resp>>

\* Stale retry state is cleared before the loop is entered.
Clear(p) ==
    /\ req[p].pc = "clear"
    /\ scanProgress' = UpdateScanProgress(scanProgress, req[p].repo,
                           [status |-> "in_progress", nextRetryAt |-> Null,
                            errorMessage |-> "none"])
    /\ req' = [req EXCEPT ![p].pc = "fetch"]
    /\ UNCHANGED <<call, now, srcTotal, srcRev, quotaRemaining, quotaResetAt, issues,
                   resp, served, rlResp, persisted>>

\* One call of fetchIssuesWithCursor with the current cursor.
Fetch(p, fault) ==
    /\ req[p].pc = "fetch"
    /\ LET r == req[p]
           response == Graphql(r.repo, r.cursor, fault)
           out == FetchIssuesWithCursor(response)
           pg == r.cursor + 1
       IN  /\ quotaRemaining' = response.remaining
           /\ quotaResetAt' = response.resetAt
           /\ served' = IF Served(response)
                        THEN [served EXCEPT ![r.repo][pg] = Min(@ + 1, ServedCap)]
                        ELSE served
           /\ req' = [req EXCEPT ![p] =
                 IF out.kind = "page"
                 THEN [r EXCEPT !.pc = IF Len(out.issues) = 0 THEN "update" ELSE "append",
                                !.batch = out.issues, !.idx = 1,
                                !.endCursor = out.endCursor,
                                !.hasNext = out.hasNextPage, !.calls = @ + 1]
                 ELSE IF out.kind = "RateLimitError"
                 THEN [r EXCEPT !.pc = "setRetry", !.retryAt = out.resetAt,
                                !.calls = @ + 1]
                 ELSE [r EXCEPT !.pc = "fail", !.err = out.kind, !.calls = @ + 1]]
    /\ UNCHANGED <<call, now, srcTotal, srcRev, issues, scanProgress, resp, rlResp, persisted>>

\* appendIssues: one upsert per issue of the page, in order.
AppendIssue(p) ==
    /\ req[p].pc = "append"
    /\ LET r == req[p]
       IN  /\ issues' = UpsertIssue(issues, r.repo, r.batch[r.idx])
           /\ req' = [req EXCEPT ![p].idx = r.idx + 1,
                                 ![p].pc = IF r.idx = Len(r.batch)
                                           THEN "update" ELSE "append"]
    /\ UNCHANGED <<call, now, srcTotal, srcRev, quotaRemaining, quotaResetAt,
                   scanProgress, resp, served, rlResp, persisted>>

\* The checkpoint of the page is written before the next page is requested.
Update(p) ==
    /\ req[p].pc = "update"
    /\ LET r == req[p]
           n == AppendCount(r.batch)
       IN  /\ scanProgress' = UpdateScanProgress(scanProgress, r.repo,
                                  [currentPage |-> r.page + 1,
                                   issuesFetched |-> r.count + n,
                                   cursor |-> r.endCursor])
           /\ req' = [req EXCEPT ![p].page = r.page + 1, ![p].count = r.count + n,
                                 ![p].cursor = r.endCursor, ![p].batch = <<>>,
                                 ![p].idx = 0,
                                 ![p].pc = IF r.hasNext THEN "fetch" ELSE "complete"]
           /\ persisted' = [persisted EXCEPT ![r.repo] = @ \cup {r.cursor + 1}]
    /\ UNCHANGED <<call, now, srcTotal, srcRev, quotaRemaining, quotaResetAt, issues,
                   resp, served, rlResp>>

\* The source reported no further page: completeScan and the reply.
Complete(p) ==
    /\ req[p].pc = "complete"
    /\ LET r == req[p]
       IN  /\ scanProgress' = CompleteScan(scanProgress, r.repo, r.count)
           /\ Reply(p, [kind |-> "ok", repo |-> r.repo, status |-> "completed",
                        page |-> r.page, count |-> r.count,
                        nextCallAllowedAt |-> Null, calls |-> r.calls])
    /\ req' = [req EXCEPT ![p] = Idle]
    /\ UNCHANGED <<call, now, srcTotal, srcRev, quotaRemaining, quotaResetAt, issues,
                   served, rlResp, persisted>>

\* The fetch raised RateLimitError: setRateLimitRetry and the reply.
SetRetry(p) ==
    /\ req[p].pc = "setRetry"
    /\ LET r == req[p]
           answer == [kind |-> "ok", repo |-> r.repo, status |-> "rate_limited",
                      page |-> r.page, count |-> r.count,
                      nextCallAllowedAt |-> r.retryAt, calls |-> r.calls]
       IN  /\ scanProgress' = SetRateLimitRetry(scanProgress, r.repo, r.retryAt)
           /\ Reply(p, answer)
           /\ rlResp' = [rlResp EXCEPT ![r.repo] = [answer EXCEPT !.calls = 0]]
    /\ req' = [req EXCEPT ![p] = Idle]
    /\ UNCHANGED <<call, now, srcTotal, srcRev, quotaRemaining, quotaResetAt, issues,
                   served, persisted>>

\* Any other error: failScan, and the error goes to the caller.
Fail(p) ==
    /\ req[p].pc = "fail"
    /\ LET r == req[p]
       IN  /\ scanProgress' = FailScan(scanProgress, r.repo, r.err)
           /\ Reply(p, [kind |-> "error", repo |-> r.repo, status |-> r.err,
                        page |-> r.page, count |-> r.count,
                        nextCallAllowedAt |-> Null, calls |-> r.calls])
    /\ req' = [req EXCEPT ![p] = Idle]
    /\ UNCHANGED <<call, now, srcTotal, srcRev, quotaRemaining, quotaResetAt, issues,
                   served, rlResp, persisted>>

\* --------------------------------------------------------- environment
Tick ==
    /\ now < MaxTime
    /\ now' = now + 1
    /\ UNCHANGED <<call, srcTotal, srcRev, quotaRemaining, quotaResetAt, issues,
                   scanProgress, req, resp, served, rlResp, persisted>>

\* The issues are edited at GitHub (title, body, URL).
EditSource ==
    /\ srcRev < MaxRev
    /\ srcRev' = srcRev + 1
    /\ UNCHANGED <<call, now, srcTotal, quotaRemaining, quotaResetAt, issues,
                   scanProgress, req, resp, served, rlResp, persisted>>

\* The server process dies: every request in flight is lost with its locals;
\* the tables are durable.
Crash ==
    /\ \E p \in Procs : req[p].pc # "idle"
    /\ req' = [p \in Procs |-> Idle]
    /\ UNCHANGED <<call, now, srcTotal, srcRev, quotaRemaining, quotaResetAt, issues,
                   scanProgress, resp, served, rlResp, persisted>>

Faults == {"none", "not_found", "error"}

ScanStep(p, repos) ==
    \/ \E repo \in repos, fresh \in BOOLEAN : Start(p, repo, fresh)
    \/ ResetDelete(p)
    \/ ResetUpsert(p)
    \/ Clear(p)
    \/ \E fault \in Faults : Fetch(p, fault)
    \/ AppendIssue(p)
    \/ Update(p)
    \/ Complete(p)
    \/ SetRetry(p)
    \/ Fail(p)

\* One request at a time over both repositories, no crash.
Next ==
    \/ ScanStep("p1", Repos)
    \/ Tick
    \/ EditSource

Spec == Init /\ [][Next]_vars

\* One request at a time over one repository; the process may die between any
\* two steps.
NextCrash ==
    \/ ScanStep("p1", {"a/x"})
    \/ Tick
    \/ EditSource
    \/ Crash

SpecCrash == Init /\ [][NextCrash]_vars

\* ------------------------------------------------------------ helpers
Stored(repo, id) == \E r \in issues : r.repo = repo /\ r.githubId = id

PagesStored(repo, pages) ==
    \A page \in pages : \A id \in PageIds(repo, page) : Stored(repo, id)

AllIdle == \A p \in Procs : req[p].pc = "idle"

\* ================================================================ C1
\* C1: crash consistency.  Whenever no request is in flight (also after a crash
\* between any two steps), every page the persisted checkpoint counts has all of
\* its records in the Issue table.
C1_CrashConsistent ==
    AllIdle =>
        \A c \in scanProgress : PagesStored(c.repo, persisted[c.repo])


\* ================================================================ C2
MaxOf(S) == CHOOSE x \in S : \A y \in S : y <= x

\* A step in which request p calls GitHub.
Requests(p) == req[p].pc = "fetch" /\ req'[p].calls = req[p].calls + 1

RecordsOfPages(repo, pages) == UNION {PageIds(repo, pg) : pg \in pages}

\* The scan call of slot p just ended because the fetch raised RateLimitError.
EndedRateLimited(p) ==
    req[p].pc = "idle" /\ resp[p].status = "rate_limited" /\ resp[p].calls > 0

RateLimitCheckpoint(c, answer, status) ==
    /\ c.status = status
    /\ c.currentPage = Cardinality(persisted[c.repo])
    /\ c.currentPage = answer.page
    /\ c.issuesFetched = Cardinality(RecordsOfPages(c.repo, persisted[c.repo]))
    /\ c.cursor = IF persisted[c.repo] = {} THEN NullCursor
                                            ELSE MaxOf(persisted[c.repo])
    /\ c.nextRetryAt # Null
    /\ c.nextRetryAt = answer.nextCallAllowedAt
    /\ PagesStored(c.repo, persisted[c.repo])

\* C3: after a scan call that hit the rate limit on page k+1 the
\* checkpoint has status rate-limited, k pages' counters, the cursor of page k
\* and the reset instant, and the k pages are stored.
C3_RateLimitedStatus ==
    \A p \in Procs :
        EndedRateLimited(p) =>
            /\ ProgressOf(resp[p].repo) # {}
            /\ \A c \in ProgressOf(resp[p].repo) :
                   RateLimitCheckpoint(c, resp[p], "rate_limited")

\* ================================================================ C4
\* Slot p replies at once, without entering the handler body.
RepliesAtOnce(p) ==
    req[p].pc = "idle" /\ req'[p].pc = "idle" /\ resp'[p] # resp[p]

SameState(a, b) ==
    /\ a.status = b.status /\ a.page = b.page /\ a.count = b.count
    /\ a.nextCallAllowedAt = b.nextCallAllowedAt

CallAppendIssues(p, repo, cursor) ==
    /\ req[p].pc = "idle"
    /\ LET batch == PageNodes(repo, cursor)
       IN  IF Len(batch) = 0
           THEN /\ req' = req
                /\ Reply(p, [NoResp EXCEPT !.kind = "ok", !.repo = repo,
                                           !.status = "appended", !.count = 0])
           ELSE /\ req' = [req EXCEPT ![p] = [Idle EXCEPT !.pc = "append",
                                                         !.repo = repo,
                                                         !.cursor = cursor,
                                                         !.batch = batch,
                                                         !.idx = 1]]
                /\ Reply(p, NoResp)
    /\ UNCHANGED <<call, now, srcTotal, srcRev, quotaRemaining, quotaResetAt, issues,
                   scanProgress, served, rlResp, persisted>>

\* appendIssues returns the count to its caller.
AppendReturn(p) ==
    /\ req[p].pc = "update"
    /\ Reply(p, [NoResp EXCEPT !.kind = "ok", !.repo = req[p].repo,
                               !.status = "appended",
                               !.count = AppendCount(req[p].batch)])
    /\ req' = [req EXCEPT ![p] = Idle]
    /\ UNCHANGED <<call, now, srcTotal, srcRev, quotaRemaining, quotaResetAt, issues,
                   scanProgress, served, rlResp, persisted>>

NextAppend ==
    \/ \E p \in Procs, repo \in Repos, cursor \in 0..MaxPages :
           CallAppendIssues(p, repo, cursor)
    \/ \E p \in Procs : AppendIssue(p)
    \/ \E p \in Procs : AppendReturn(p)
    \/ EditSource

SpecAppend == Init /\ [][NextAppend]_vars

SameKey(r, repo, id) == r.repo = repo /\ r.githubId = id

UniqueKeys(tbl) ==
    \A r1, r2 \in tbl : SameKey(r1, r2.repo, r2.githubId) => r1 = r2

\* Request p performs one upsert.
Upserts(p) == req[p].pc = "append" /\ req'[p].idx = req[p].idx + 1

\* C5: idempotent upsert.  The store never holds two records with one
\* (repo, githubId); an upsert of a stored key leaves the number of records as it
\* was, and of a new key adds one; afterwards the record of the key carries the
\* title, body, URL and creation time just given, and every record with another
\* key, the same id under the other repository included, is as it was.
C5_IdempotentUpsert ==
    [][/\ UniqueKeys(issues')
       /\ \A p \in Procs :
            Upserts(p) =>
               LET repo == req[p].repo
                   issue == req[p].batch[req[p].idx]
               IN  /\ Cardinality(issues') =
                         IF Stored(repo, issue.id) THEN Cardinality(issues)
                                                   ELSE Cardinality(issues) + 1
                   /\ \E r \in issues' :
                         /\ SameKey(r, repo, issue.id)
                         /\ r.title = issue.title /\ r.body = issue.body
                         /\ r.htmlUrl = issue.html_url
                         /\ r.createdAt = issue.created_at
                   /\ {r \in issues' : ~SameKey(r, repo, issue.id)} =
                      {r \in issues : ~SameKey(r, repo, issue.id)}]_vars

\* Page 1 of "a/x" is being appended again after an edit: issue 1 already
\* carries the new values, issue 2 still the old ones, and "b/y" holds its own
\* issue 1 with the old values.
C5_Witness ==
    \E p \in Procs :
        /\ req[p].pc = "append" /\ req[p].repo = "a/x" /\ req[p].idx = 2
        /\ \E r \in issues : SameKey(r, "a/x", 1) /\ r.title = 1
        /\ \E r \in issues : SameKey(r, "a/x", 2) /\ r.title = 0
        /\ \E r \in issues : SameKey(r, "b/y", 1) /\ r.title = 0


\* ================================================================ C6
\* Request p writes the checkpoint of a page.
PageWrite(p) == req[p].pc = "update" /\ req'[p].page = req[p].page + 1

\* C6: outside a reset the record counter of a checkpoint never decreases, and
\* each write of a page's checkpoint leaves it equal to the number of records
\* stored for the repository (so a page persisted again does not count twice).
C6_CounterMatchesStore ==
    [][/\ \A c \in scanProgress, d \in scanProgress' :
            (c.repo = d.repo /\ \A p \in Procs : req[p].pc # "resetUpsert") =>
                d.issuesFetched >= c.issuesFetched
       /\ \A p \in Procs :
            PageWrite(p) =>
               \A d \in scanProgress' :
                   d.repo = req[p].repo =>
                       d.issuesFetched =
                           Cardinality({r \in issues' : r.repo = d.repo})]_vars

\* ================================================================ C7
Keys(tbl, repo) == {r.githubId : r \in {x \in tbl : x.repo = repo}}

\* Request p is accepted by the handler.
Starts(p) == req[p].pc = "idle" /\ req'[p].pc # "idle"

ResetReturned(p) == req[p].pc = "clear" /\ ~req[p].resumed

\* C8: after createOrResetScanProgress the checkpoint is in_progress with a
\* null cursor, page counter 0, record counter 0, no retry instant and no error
\* message, and no issue of the repository is stored.
C8_ResetPostcondition ==
    \A p \in Procs :
        ResetReturned(p) =>
            /\ ProgressOf(req[p].repo) # {}
            /\ IssuesOf(req[p].repo) = {}
            /\ \A c \in ProgressOf(req[p].repo) :
                  /\ c.status = "in_progress" /\ c.cursor = NullCursor
                  /\ c.currentPage = 0 /\ c.issuesFetched = 0
                  /\ c.nextRetryAt = Null /\ c.errorMessage = "none"

\* ================================================================ C9
\* The scan call of slot p just ended with completeScan.
EndedCompleted(p) == req[p].pc = "idle" /\ resp[p].status = "completed"

\* C9: when a scan call has persisted status completed, the checkpoint counts
\* every page of the source and every issue of it, and every issue is stored
\* once (an empty source has the one empty page the loop fetched).
C9_CompletedCounts ==
    \A p \in Procs :
        EndedCompleted(p) =>
          \A c \in ProgressOf(resp[p].repo) :
            /\ c.status = "completed"
            /\ c.currentPage = IF NumPages(c.repo) = 0 THEN 1 ELSE NumPages(c.repo)
            /\ c.issuesFetched = srcTotal[c.repo]
            /\ Keys(issues, c.repo) = 1..srcTotal[c.repo]
            /\ Cardinality(IssuesOf(c.repo)) = srcTotal[c.repo]

\* ================================================================ C10
\* C10: between two resets GitHub serves no page of a repository more than once.
C10_EachPageOnce ==
    \A repo \in Repos : \A pg \in DOMAIN served[repo] : served[repo][pg] <= 1


\* ================================================================ C11
\* The state of the scan state machine a repository's checkpoint is in: no row
\* is NotStarted, and RateLimited is the in_progress row that carries a retry
\* instant (the stored status has no value of its own for it).
ScanState(tbl, repo) ==
    IF \A c \in tbl : c.repo # repo
    THEN "not_started"
    ELSE LET c == CHOOSE c \in tbl : c.repo = repo
         IN  IF c.status = "in_progress" /\ c.nextRetryAt # Null
             THEN "rate_limited" ELSE c.status

\* The step is the checkpoint reset of createOrResetScanProgress on repo.
IsReset(repo) ==
    \E p \in Procs : req[p].pc = "resetUpsert" /\ req[p].repo = repo

\* The retry window of the repository's checkpoint has elapsed.
WindowElapsed(repo) == \A c \in ProgressOf(repo) : ~InRetryWindow(c)

\* The changes of state the scan state machine of the specification has.
StatedChange(repo, s, t) ==
    \/ s = "not_started" /\ t = "in_progress"
    \/ s = "in_progress" /\ t \in {"completed", "rate_limited", "failed"}
    \/ s = "rate_limited" /\ t = "in_progress" /\ WindowElapsed(repo)
    \/ t = "in_progress" /\ IsReset(repo)

Exhausted(repo, cursor) ==
    PageNodes(repo, cursor) = <<>> /\ ~HasNextPage(repo, cursor)

\* C12: a checkpoint with status completed has no retry instant, and its cursor
\* is at the end of the source: no issue and no further page follows it.
C12_CompletedExhausted ==
    \A c \in scanProgress :
        c.status = "completed" =>
            c.nextRetryAt = Null /\ Exhausted(c.repo, c.cursor)


\* ================================================================ C13
\* C13: a page fetch raises RateLimitError exactly when the telemetry of the
\* response reports fewer than 3 remaining calls, the error carries the
\* telemetry's reset instant and the wait from now to it, and the scan never
\* brings the quota to zero.
C13_RateLimitGuard ==
    [][\A p \in Procs : \A fault \in Faults :
         Fetch(p, fault) =>
            LET response == Graphql(req[p].repo, req[p].cursor, fault)
                out == FetchIssuesWithCursor(response)
            IN  /\ (out.kind = "RateLimitError") <=>
                      (Served(response) /\ response.remaining < RateLimitThreshold)
                /\ out.kind = "RateLimitError" =>
                      /\ out.resetAt = response.resetAt
                      /\ out.waitMs = response.resetAt - now
                /\ quotaRemaining' > 0]_vars

\* ================================================================ C14
\* C14: whatever GitHub answers to the call a request is about to make, a failure
\* of fetchIssuesWithCursor is the rate-limit error (with wait and reset
\* instant), the not-found error or the generic failure; it is the rate-limit
\* error exactly when the guard tripped or GitHub refused the call for the rate
\* limit, not-found exactly when the repository is unknown, and generic exactly
\* for any other failure.
C14_FailureKinds ==
    \A p \in Procs : \A fault \in Faults :
      req[p].pc = "fetch" =>
        LET response == Graphql(req[p].repo, req[p].cursor, fault)
            out == FetchIssuesWithCursor(response)
            limited == \/ Served(response) /\ response.remaining < RateLimitThreshold
                       \/ response.status = "rate limit"
        IN  /\ out.kind \in {"page", "RateLimitError", "NotFound", "Error"}
            /\ (out.kind = "page") <=> (Served(response) /\ ~limited)
            /\ (out.kind = "RateLimitError") <=> limited
            /\ (out.kind = "NotFound") <=> (response.status = "not_found")
            /\ (out.kind = "Error") <=> (response.status = "error")
            /\ out.kind = "RateLimitError" =>
                  out.resetAt # Null /\ out.waitMs = out.resetAt - now

\* A request is about to call GitHub with no call left in the quota, so the
\* call is refused for the rate limit, after the guard had tripped before.
C14_Witness ==
    \E p \in Procs :
        /\ req[p].pc = "fetch" /\ quotaRemaining = 0 /\ now < quotaResetAt
        /\ Graphql(req[p].repo, req[p].cursor, "none").status = "rate limit"
        /\ \E c \in scanProgress : c.nextRetryAt # Null


PersistFail(p) ==
    /\ req[p].pc \in {"append", "update"}
    /\ req' = [req EXCEPT ![p].pc = "fail", ![p].err = "Error"]
    /\ UNCHANGED <<call, now, srcTotal, srcRev, quotaRemaining, quotaResetAt, issues,
                   scanProgress, resp, served, rlResp, persisted>>

\* One request at a time over one repository; fetches and persistence steps
\* may fail.
NextFail ==
    \/ ScanStep("p1", {"a/x"})
    \/ Tick
    \/ EditSource
    \/ PersistFail("p1")

SpecFail == Init /\ [][NextFail]_vars

\* The step leaves the progress of the repository's checkpoint, every other
\* checkpoint and the stored issues as they are.
KeepsProgress(repo) ==
    /\ issues' = issues
    /\ {c \in scanProgress' : c.repo # repo} = {c \in scanProgress : c.repo # repo}
    /\ \A c \in ProgressOf(repo) :
          \E d \in scanProgress' :
              /\ d.repo = repo /\ d.cursor = c.cursor
              /\ d.currentPage = c.currentPage
              /\ d.issuesFetched = c.issuesFetched
              /\ d.totalPages = c.totalPages

\* The progress of the checkpoint is that of the pages fully persisted: their
\* number, the number of their issues and the cursor after the last of them
\* (the null cursor when there is none).
DescribesPersisted(tbl, repo) ==
    \A c \in {x \in tbl : x.repo = repo} :
        /\ c.currentPage = Cardinality(persisted[repo])
        /\ c.issuesFetched = Cardinality(RecordsOfPages(repo, persisted[repo]))
        /\ c.cursor = IF persisted[repo] = {} THEN NullCursor
                                             ELSE MaxOf(persisted[repo])
        /\ PagesStored(repo, persisted[repo])

\* C16: a fetch that fails with another error than the rate limit, or a failing
\* persistence step, sends the request to the failure path with nothing written;
\* the failure path answers the caller with the error and ends the request; and
\* recording the failure or a rate limit on the checkpoint leaves cursor, page
\* counter and record counter as they were, describing the pages fully
\* persisted.
C16_FailureKeepsCheckpoint ==
    [][\A p \in Procs :
         LET repo == req[p].repo
         IN  /\ (req[p].pc \in {"fetch", "append", "update"} /\ req'[p].pc = "fail") =>
                   /\ issues' = issues /\ scanProgress' = scanProgress
                   /\ req'[p].err \in {"NotFound", "Error"}
             /\ \A fault \in Faults \ {"none"} :
                   Fetch(p, fault) => req'[p].pc = "fail"
             /\ (req[p].pc = "fail" /\ req'[p] # req[p]) =>
                   /\ req'[p].pc = "idle"
                   /\ resp'[p].kind = "error" /\ resp'[p].status = req[p].err
                   /\ KeepsProgress(repo)
                   /\ DescribesPersisted(scanProgress', repo)
                   /\ \E d \in scanProgress' : d.repo = repo /\ d.status = "failed"
             /\ (req[p].pc = "setRetry" /\ req'[p] # req[p]) =>
                   /\ KeepsProgress(repo)
                   /\ DescribesPersisted(scanProgress', repo)]_vars

\* ------------------------------------------------- request validation
MaxLen == 5

\* The characters of the repository strings: two letters and the separator.
Chars == {"a", "x", "/"}

\* The strings of at most n characters.
StringsUpTo(n) == UNION {[1..k -> Chars] : k \in 0..n}

\* String.prototype.split('/'): the segments between the separators, in order;
\* a string without separator is its own single segment.
RECURSIVE Split(_)
Split(s) ==
    IF \A i \in 1..Len(s) : s[i] # "/"
    THEN <<s>>
    ELSE LET i == CHOOSE i \in 1..Len(s) :
                     s[i] = "/" /\ \A j \in 1..(i - 1) : s[j] # "/"
         IN  <<SubSeq(s, 1, i - 1)>> \o Split(SubSeq(s, i + 1, Len(s)))

InvalidRepoFormat == [kind |-> "Error", message |-> "Invalid repo format",
                      owner |-> <<>>, repo |-> <<>>]

\* Variant of parseRepoString that tests the number of segments only.
ParseRepoStringAnySegments(repoString) ==
    LET parts == Split(repoString)
    IN  IF Len(parts) # 2
        THEN InvalidRepoFormat
        ELSE [kind |-> "ok", message |-> "none", owner |-> parts[1], repo |-> parts[2]]

\* parseRepoString
ParseRepoString(repoString) ==
    LET parts == Split(repoString)
    IN  IF Len(parts) # 2 \/ parts[1] = <<>> \/ parts[2] = <<>>
        THEN InvalidRepoFormat
        ELSE [kind |-> "ok", message |-> "none", owner |-> parts[1], repo |-> parts[2]]

\* The values a field of a JSON request body can hold: absent, a number, a
\* string.
Undefined == [type |-> "undefined"]
Num(n) == [type |-> "number", value |-> n]
Str(s) == [type |-> "string", value |-> s]

\* JavaScript's !v
Falsy(v) ==
    \/ v.type = "undefined"
    \/ v.type = "number" /\ v.value = 0
    \/ v.type = "string" /\ v.value = <<>>

\* The "owner/name" string of a repository, and the repository of a string.
RepoString(r) == IF r = "a/x" THEN <<"a", "/", "x">> ELSE <<"b", "/", "y">>

RepoKey(s) == CHOOSE r \in Repos : RepoString(r) = s

\* The validation of the scan route: the repo field is there and is a string,
\* and parseRepoString accepts it.
ValidateScan(body) ==
    IF Falsy(body.repo) \/ body.repo.type # "string"
    THEN [status |-> 400, error |-> "Missing or invalid repo field"]
    ELSE LET parsed == ParseRepoString(body.repo.value)
         IN  IF parsed.kind # "ok"
             THEN [status |-> 400, error |-> parsed.message]
             ELSE [status |-> 200, error |-> "none"]

\* The bodies of the scan requests: without repo field, with a number, with a
\* malformed string, with the string of a repository.
ScanBodies ==
    {[repo |-> v] : v \in {Undefined, Num(0), Num(42), Str(<<>>), Str(<<"a">>),
                           Str(<<"a", "/">>), Str(<<"/", "x">>),
                           Str(<<"a", "/", "x", "/", "a">>),
                           Str(RepoString("a/x"))}}

\* What a request can change, as it is when the request arrives.
Snapshot ==
    [issues |-> issues, scanProgress |-> scanProgress,
     quotaRemaining |-> quotaRemaining, served |-> served]

\* A scan request arrives and is validated: a rejected request is answered at
\* once with status 400, an accepted one goes on to the scan.
ScanRequest(p, body, fresh) ==
    /\ req[p].pc = "idle"
    /\ resp[p].kind # "pending"
    /\ call' = [op |-> "scan", body |-> body, fresh |-> fresh, before |-> Snapshot]
    /\ Reply(p, IF ValidateScan(body).status = 400
                THEN [NoResp EXCEPT !.kind = "error", !.status = "Invalid"]
                ELSE [NoResp EXCEPT !.kind = "pending"])
    /\ UNCHANGED <<now, srcTotal, srcRev, quotaRemaining, quotaResetAt, issues,
                   scanProgress, req, served, rlResp, persisted>>

\* The accepted request starts its scan.
Handle(p) ==
    /\ call.op = "scan"
    /\ resp[p].kind = "pending"
    /\ Start(p, RepoKey(call.body.repo.value), call.fresh)

\* One validated request at a time over one repository.
NextRequest ==
    \/ \E body \in ScanBodies, fresh \in BOOLEAN : ScanRequest("p1", body, fresh)
    \/ Handle("p1")
    \/ ResetDelete("p1")
    \/ ResetUpsert("p1")
    \/ Clear("p1")
    \/ \E fault \in Faults : Fetch("p1", fault)
    \/ AppendIssue("p1")
    \/ Update("p1")
    \/ Complete("p1")
    \/ SetRetry("p1")
    \/ Fail("p1")
    \/ Tick

SpecRequest == Init /\ [][NextRequest]_vars

\* The request of slot p has been answered with a rejection: by the validation,
\* or by GitHub not knowing the repository.
Rejected(p, why) ==
    /\ call.op = "scan"
    /\ req[p].pc = "idle"
    /\ resp[p].kind = "error" /\ resp[p].status = why

C17_InvalidLeavesNoTrace ==
    \A p \in Procs :
        Rejected(p, "Invalid") =>
            /\ ValidateScan(call.body).status = 400
            /\ quotaRemaining = call.before.quotaRemaining
            /\ served = call.before.served
            /\ issues = call.before.issues
            /\ scanProgress = call.before.scanProgress

\* ------------------------------------------------------ parseRepoString
\* parseRepoString is about to be called with a string of at most MaxLen
\* characters.
InitParse ==
    /\ InitStore
    /\ call \in {[op |-> "parseRepoString", pc |-> "called", arg |-> s,
                  result |-> InvalidRepoFormat] : s \in StringsUpTo(MaxLen)}

\* The call returns, or throws.
CallParseRepoString ==
    /\ call.op = "parseRepoString"
    /\ call.pc = "called"
    /\ call' = [call EXCEPT !.pc = "returned", !.result = ParseRepoString(call.arg)]
    /\ UNCHANGED <<now, srcTotal, srcRev, quotaRemaining, quotaResetAt, issues,
                   scanProgress, req, resp, served, rlResp, persisted>>

NextParse == CallParseRepoString

SpecParse == InitParse /\ [][NextParse]_vars

\* The positions of the separator in a string.
Slashes(s) == {i \in 1..Len(s) : s[i] = "/"}

\* C18: parseRepoString returns exactly for the strings with one '/' that is
\* neither their first nor their last character, and then the owner is what
\* stands before the '/' and the name what stands after it; for every other
\* string (no '/', several '/', nothing before or nothing after the '/') it
\* throws the invalid-format error.
C18_ParseRepoString ==
    (call.op = "parseRepoString" /\ call.pc = "returned") =>
        LET s == call.arg
            out == call.result
        IN  IF Cardinality(Slashes(s)) = 1 /\ Slashes(s) \cap {1, Len(s)} = {}
            THEN /\ out.kind = "ok"
                 /\ out.owner # <<>> /\ out.repo # <<>>
                 /\ out.owner \o <<"/">> \o out.repo = s
                 /\ Slashes(out.owner) = {} /\ Slashes(out.repo) = {}
            ELSE /\ out.kind = "Error"
                 /\ out.message = "Invalid repo format"

\* C18 witness: a string with owner and name has been parsed, in a state space
\* that also holds a string with three non-empty segments.
C18_Witness ==
    /\ call.op = "parseRepoString" /\ call.pc = "returned"
    /\ call.arg = <<"a", "x", "/", "x">>
    /\ call.result.kind = "ok"
    /\ call.result.owner = <<"a", "x">> /\ call.result.repo = <<"x">>
    /\ ParseRepoString(<<"a", "/", "x", "/", "a">>).kind = "Error"
    /\ ParseRepoString(<<"a", "/">>).kind = "Error"

\* -------------------------------------------------------- analyze route
MaxChunks == 2

TokenThreshold == 40000

\* estimateTokens, on the number of characters of the text.
EstimateTokens(chars) == (chars + 3) \div 4

\* The number of characters of the formatted issues: a short text, and the
\* texts of 39,999, of 40,000 and of 40,001 tokens.
CorpusSizes == {100, 4 * TokenThreshold - 4, 4 * TokenThreshold, 4 * TokenThreshold + 1}

\* The issues stored under the repo string of a request: the table holds rows
\* of scanned repositories only.
IssuesOfString(s) ==
    IF \E r \in Repos : RepoString(r) = s THEN IssuesOf(RepoKey(s)) ELSE {}

\* The bodies of the analyze requests.
AnalyzeBodies ==
    {[repo |-> v, prompt |-> w] :
        v \in {Undefined, Num(42), Str(<<"a">>),
               Str(<<"a", "/", "x", "/", "a">>), Str(RepoString("a/x")),
               Str(RepoString("b/y"))},
        w \in {Undefined, Num(7), Str(<<>>), Str(<<"a">>)}}

\* No answer of a provider.
NoAnswer == [by |-> "none", for |-> 0]

\* No error message.
NoError == [message |-> "none", lines |-> <<>>]

\* The locals of an analyze request, or of a call of analyzeIssues.
NewCall(op, body) ==
    [op |-> op, pc |-> "done", body |-> body, key |-> FALSE, reads |-> 0,
     records |-> {}, chars |-> 0, splits |-> 0, plan |-> <<>>, idx |-> 0,
     router |-> <<>>, tried |-> <<>>, errors |-> <<>>, inflight |-> "none",
     summaries |-> <<>>, wait |-> 0, delays |-> <<>>, providerCalls |-> 0,
     status |-> 0, reply |-> "none", answer |-> NoAnswer, details |-> NoError]

\* The validation of the analyze route.
ValidateAnalyze(body) ==
    IF Falsy(body.repo) \/ body.repo.type # "string"
    THEN [status |-> 400, error |-> "Missing or invalid repo field"]
    ELSE IF Falsy(body.prompt) \/ body.prompt.type # "string"
    THEN [status |-> 400, error |-> "Missing or invalid prompt field"]
    ELSE [status |-> 200, error |-> "none"]

Frame == UNCHANGED <<now, srcTotal, srcRev, quotaRemaining, quotaResetAt, issues,
                     scanProgress, req, resp, served, rlResp, persisted>>

\* An analyze request arrives and is validated.
AnalyzeRequest(body) ==
    /\ call.pc = "done"
    /\ LET v == ValidateAnalyze(body)
           c == NewCall("analyze", body)
       IN  call' = IF v.status = 400
                   THEN [c EXCEPT !.status = 400, !.reply = v.error]
                   ELSE [c EXCEPT !.pc = "hasRepoBeenScanned"]
    /\ Frame

\* hasRepoBeenScanned: count the stored issues of the repository.
HasRepoBeenScanned ==
    /\ call.pc = "hasRepoBeenScanned"
    /\ call' = IF Cardinality(IssuesOfString(call.body.repo.value)) > 0
               THEN [call EXCEPT !.pc = "getIssuesByRepo", !.reads = @ + 1]
               ELSE [call EXCEPT !.pc = "done", !.reads = @ + 1, !.status = 404,
                                 !.reply = "Repository not scanned"]
    /\ Frame

\* getIssuesByRepo: read the stored issues of the repository.
GetIssuesByRepo ==
    /\ call.pc = "getIssuesByRepo"
    /\ LET found == IssuesOfString(call.body.repo.value)
       IN  call' = IF Cardinality(found) = 0
                   THEN [call EXCEPT !.pc = "done", !.reads = @ + 1, !.status = 200,
                                     !.reply = "No open issues found in this repository."]
                   ELSE [call EXCEPT !.pc = "analyzeIssues", !.reads = @ + 1,
                                     !.records = found]
    /\ Frame

\* analyzeIssues is called on its own, with the issues given.
CallAnalyzeIssues(given) ==
    /\ call.pc = "done"
    /\ call' = [NewCall("analyzeIssues", [repo |-> Undefined, prompt |-> Str(<<"a">>)])
                   EXCEPT !.pc = "analyzeIssues", !.records = given]
    /\ Frame

\* Variant of analyzeIssues whose final call carries the last summary only.
RouterCallLastSummary(c, i) ==
    LET n == Len(c.plan) - 1
    IN  IF c.plan[i] = "direct"
        THEN [prompt |-> [kind |-> "user", i |-> 0, n |-> 0, user |-> c.body.prompt],
              text |-> [kind |-> "corpus", i |-> 0, parts |-> <<>>]]
        ELSE IF c.plan[i] = "chunk"
        THEN [prompt |-> [kind |-> "batch", i |-> i, n |-> n, user |-> Undefined],
              text |-> [kind |-> "chunk", i |-> i, parts |-> <<>>]]
        ELSE [prompt |-> [kind |-> "final", i |-> 0, n |-> 0, user |-> c.body.prompt],
              text |-> [kind |-> "summaries", i |-> 0,
                        parts |-> <<c.summaries[Len(c.summaries)]>>]]

\* The arguments of call i of the plan to analyzeWithProvider: the user's prompt
\* with the whole text, the instruction for batch i of n with chunk i, or the
\* final prompt, which embeds the user's prompt, with the labelled summaries.
RouterCall(c, i) ==
    LET n == Len(c.plan) - 1
    IN  IF c.plan[i] = "direct"
        THEN [prompt |-> [kind |-> "user", i |-> 0, n |-> 0, user |-> c.body.prompt],
              text |-> [kind |-> "corpus", i |-> 0, parts |-> <<>>]]
        ELSE IF c.plan[i] = "chunk"
        THEN [prompt |-> [kind |-> "batch", i |-> i, n |-> n, user |-> Undefined],
              text |-> [kind |-> "chunk", i |-> i, parts |-> <<>>]]
        ELSE [prompt |-> [kind |-> "final", i |-> 0, n |-> 0, user |-> c.body.prompt],
              text |-> [kind |-> "summaries", i |-> 0, parts |-> c.summaries]]

\* analyzeWithProvider is called for call i of the plan.
CallRouter(c, i) ==
    [c EXCEPT !.pc = "router", !.idx = i, !.tried = <<>>, !.errors = <<>>,
              !.router = Append(@, RouterCall(c, i))]

\* Variant of analyzeIssues that splits every text.
PlanOfAlwaysChunked(chars, n) ==
    [i \in 1..(n + 1) |-> IF i <= n THEN "chunk" ELSE "final"]

\* The calls analyzeIssues plans for a text of chars characters in n chunks.
PlanOf(chars, n) ==
    IF EstimateTokens(chars) < TokenThreshold
    THEN <<"direct">>
    ELSE [i \in 1..(n + 1) |-> IF i <= n THEN "chunk" ELSE "final"]

\* Variant of analyzeIssues that sends an empty text to the providers.
AnalyzeIssuesNoEmptyCheck(c, chars, n, key) ==
    LET d == [c EXCEPT !.chars = chars, !.key = key, !.plan = PlanOf(chars, n),
                       !.splits = IF Len(PlanOf(chars, n)) > 1 THEN 1 ELSE 0]
    IN  CallRouter(d, 1)

\* analyzeIssues up to its first call of analyzeWithProvider: nothing to
\* analyze, the direct analysis of a text below the threshold, or chunkText, n
\* chunks and the final synthesis; key tells whether OPENROUTER_API_KEY is set.
AnalyzeIssues(c, chars, n, key) ==
    IF Cardinality(c.records) = 0
    THEN [c EXCEPT !.pc = "done", !.status = 200, !.reply = "No issues to analyze."]
    ELSE LET d == [c EXCEPT !.chars = chars, !.key = key, !.plan = PlanOf(chars, n),
                            !.splits = IF Len(PlanOf(chars, n)) > 1 THEN 1 ELSE 0]
         IN  CallRouter(d, 1)

\* The text of the issues given has chars characters, which the splitter cuts
\* into n chunks.
StartAnalyzeIssues(chars, n, key) ==
    /\ call.pc = "analyzeIssues"
    /\ call' = AnalyzeIssues(call, chars, n, key)
    /\ Frame

\* What a provider call can come to: an answer, an empty answer, an error.
Outcomes == {"answer", "empty", "error"}

\* The message of the error a provider call ends with.
Reason(provider, out) ==
    IF out = "empty"
    THEN IF provider = "OpenRouter"
         THEN "OpenRouter returned empty or invalid response"
         ELSE "Ollama returned empty response"
    ELSE IF provider = "OpenRouter" THEN "send failed" ELSE "Ollama error"

\* The error analyzeWithProvider throws when the last provider has failed.
AggregateError(errors) == [message |-> "All LLM providers failed", lines |-> errors]

\* Variant of the route's catch that answers 500 without the details.
RouteCatchNoDetails(c, error) ==
    [c EXCEPT !.pc = "done", !.inflight = "none", !.status = 500,
              !.reply = IF c.op = "analyze" THEN "Failed to analyze issues"
                                            ELSE "thrown"]

\* The error leaves analyzeIssues as it is; the route's catch answers 500 with
\* the error's message as details.
RouteCatch(c, error) ==
    [c EXCEPT !.pc = "done", !.inflight = "none", !.status = 500,
              !.reply = IF c.op = "analyze" THEN "Failed to analyze issues"
                                            ELSE "thrown",
              !.details = error]

\* Variant of analyzeIssues that goes on with the next chunk at once.
RouterReturnsNoDelay(c, ans) ==
    IF c.plan[c.idx] = "chunk"
    THEN CallRouter([c EXCEPT !.inflight = "none",
                              !.summaries = Append(@, [label |-> c.idx, summary |-> ans])],
                    c.idx + 1)
    ELSE [c EXCEPT !.pc = "done", !.inflight = "none", !.status = 200,
                   !.reply = "analysis", !.answer = ans]

\* analyzeWithProvider returned ans to analyzeIssues: the direct and the final
\* call end the analysis; a chunk's summary is pushed with its label, followed
\* by the delay before the next chunk or before the final call.
RouterReturns(c, ans) ==
    IF c.plan[c.idx] = "chunk"
    THEN [c EXCEPT !.pc = "sleep", !.inflight = "none",
                   !.summaries = Append(@, [label |-> c.idx, summary |-> ans]),
                   !.wait = IF c.idx < Len(c.plan) - 1 THEN 2000 ELSE 1000]
    ELSE [c EXCEPT !.pc = "done", !.inflight = "none", !.status = 200,
                   !.reply = "analysis", !.answer = ans]

\* Variant of analyzeWithProvider that takes an empty answer for an answer.
ProviderReturnsEmptyOk(c, out) ==
    LET provider == c.inflight
        errors == Append(c.errors, [provider |-> provider, reason |-> Reason(provider, out)])
    IN  IF out # "error"
        THEN RouterReturns(c, [by |-> IF out = "empty" THEN "none" ELSE provider,
                               for |-> c.idx])
        ELSE IF provider = "Ollama"
        THEN RouteCatch([c EXCEPT !.errors = errors], AggregateError(errors))
        ELSE [c EXCEPT !.pc = "router", !.inflight = "none", !.errors = errors]

\* The provider in flight returns: its answer is the router's; its failure is
\* recorded, and after Ollama's the router throws the aggregate error.
ProviderReturns(c, out) ==
    LET provider == c.inflight
        errors == Append(c.errors, [provider |-> provider, reason |-> Reason(provider, out)])
    IN  IF out = "answer"
        THEN RouterReturns(c, [by |-> provider, for |-> c.idx])
        ELSE IF provider = "Ollama"
        THEN RouteCatch([c EXCEPT !.errors = errors], AggregateError(errors))
        ELSE [c EXCEPT !.pc = "router", !.inflight = "none", !.errors = errors]

\* analyzeWithProvider, step 1: OpenRouter is called when its key is set.
AnalyzeWithOpenRouter ==
    /\ call.pc = "router"
    /\ call.key /\ call.tried = <<>>
    /\ call' = [call EXCEPT !.pc = "provider", !.inflight = "OpenRouter",
                            !.tried = <<"OpenRouter">>, !.providerCalls = @ + 1]
    /\ Frame

OpenRouterReturns(out) ==
    /\ call.pc = "provider" /\ call.inflight = "OpenRouter"
    /\ call' = ProviderReturns(call, out)
    /\ Frame

\* analyzeWithProvider, step 2: Ollama is called when OpenRouter was not, or
\* has failed.
AnalyzeWithOllama ==
    /\ call.pc = "router"
    /\ call.tried = IF call.key THEN <<"OpenRouter">> ELSE <<>>
    /\ call' = [call EXCEPT !.pc = "provider", !.inflight = "Ollama",
                            !.tried = Append(@, "Ollama"), !.providerCalls = @ + 1]
    /\ Frame

OllamaReturns(out) ==
    /\ call.pc = "provider" /\ call.inflight = "Ollama"
    /\ call' = ProviderReturns(call, out)
    /\ Frame

\* The delay is over: analyzeIssues goes on with the next call of its plan.
Wake ==
    /\ call.pc = "sleep"
    /\ call' = CallRouter([call EXCEPT !.delays = Append(@, call.wait), !.wait = 0],
                          call.idx + 1)
    /\ Frame

InitAnalyze ==
    InitStore /\ call = NewCall("none", [repo |-> Undefined, prompt |-> Undefined])

\* Analyze requests and calls of analyzeIssues, one at a time, beside the scans
\* of one repository, which GitHub serves or refuses for the rate limit.
NextAnalyze ==
    \/ \E body \in AnalyzeBodies : AnalyzeRequest(body)
    \/ HasRepoBeenScanned
    \/ GetIssuesByRepo
    \/ \E empty \in BOOLEAN : CallAnalyzeIssues(IF empty THEN {} ELSE IssuesOf("a/x"))
    \/ \E chars \in CorpusSizes, n \in 1..MaxChunks, key \in BOOLEAN :
          StartAnalyzeIssues(chars, n, key)
    \/ AnalyzeWithOpenRouter
    \/ \E out \in Outcomes : OpenRouterReturns(out)
    \/ AnalyzeWithOllama
    \/ \E out \in Outcomes : OllamaReturns(out)
    \/ Wake
    \/ \E fresh \in BOOLEAN : Start("p1", "a/x", fresh)
    \/ ResetDelete("p1")
    \/ ResetUpsert("p1")
    \/ Clear("p1")
    \/ Fetch("p1", "none")
    \/ AppendIssue("p1")
    \/ Update("p1")
    \/ Complete("p1")
    \/ SetRetry("p1")

SpecAnalyze == InitAnalyze /\ [][NextAnalyze]_vars

\* The repo field is a string that is not made of two non-empty segments.
Malformed(v) == v.type = "string" /\ ParseRepoString(v.value).kind # "ok"

\* The prompt field is missing, empty or not a string.
BadPrompt(w) == Falsy(w) \/ w.type # "string"

\* The analyze request has been answered 400 with no read of the store and no
\* provider call.
RejectedUnread ==
    /\ call.pc = "done" /\ call.status = 400
    /\ call.reads = 0 /\ call.providerCalls = 0

\* C19: an analyze request whose repo string is not made of two non-empty
\* segments, or whose prompt is missing, empty or not a string, is answered 400
\* before any read of the store and before any provider call.
C19_RejectedBeforeReads ==
    (call.op = "analyze" /\ (Malformed(call.body.repo) \/ BadPrompt(call.body.prompt)))
        => /\ call.reads = 0 /\ call.providerCalls = 0
           /\ call.pc = "done" => call.status = 400

\* The prompt part of C19, with the repo field missing or not a string.
C19_BadFieldRejected ==
    (/\ call.op = "analyze"
     /\ \/ BadPrompt(call.body.prompt)
        \/ Falsy(call.body.repo)
        \/ call.body.repo.type # "string")
        => RejectedUnread

\* C20: no provider is called for an empty set of issues. An analyze request
\* that finds no stored issue of its repository is answered "not scanned"; a
\* call of analyzeIssues with no issue returns the fixed message; neither has
\* called a provider; and every provider call is made for a non-empty set of
\* issues.
C20_NoProviderCallWhenEmpty ==
    [][/\ (/\ call.pc = "hasRepoBeenScanned" /\ call' # call
           /\ IssuesOfString(call.body.repo.value) = {}) =>
              /\ call'.pc = "done" /\ call'.status = 404
              /\ call'.reply = "Repository not scanned"
              /\ call'.providerCalls = 0
       /\ (call.pc = "analyzeIssues" /\ call' # call /\ call.records = {}) =>
              /\ call'.pc = "done"
              /\ call'.reply = "No issues to analyze."
              /\ call'.providerCalls = 0
       /\ call'.providerCalls > call.providerCalls => call.records # {}]_vars

\* C20 witness: the repository was scanned to completion and has no open issue;
\* the analyze request for it has been answered "not scanned" after one read
\* of the store and no provider call.
C20_Witness ==
    /\ call.op = "analyze" /\ call.pc = "done"
    /\ call.body.repo = Str(RepoString("a/x"))
    /\ call.status = 404 /\ call.reply = "Repository not scanned"
    /\ call.reads = 1 /\ call.providerCalls = 0
    /\ IssuesOf("a/x") = {}
    /\ \E c \in ProgressOf("a/x") : c.status = "completed"

\* analyzeIssues, called with no issue, has returned the fixed message with no
\* provider call.
C20_WitnessDirect ==
    /\ call.op = "analyzeIssues" /\ call.pc = "done"
    /\ call.records = {}
    /\ call.reply = "No issues to analyze." /\ call.providerCalls = 0

\* ---------------------------------------------------------- analyzeIssues
\* The issues analyzeIssues is given: none, or one stored issue.
SampleIssues ==
    UpsertIssue({}, "a/x", [id |-> 1, title |-> 0, body |-> 0, html_url |-> 0,
                            created_at |-> 1])

\* Calls of analyzeIssues, one at a time.
NextLlm ==
    \/ \E given \in {{}, SampleIssues} : CallAnalyzeIssues(given)
    \/ \E chars \in CorpusSizes, n \in 1..MaxChunks, key \in BOOLEAN :
          StartAnalyzeIssues(chars, n, key)
    \/ AnalyzeWithOpenRouter
    \/ \E out \in Outcomes : OpenRouterReturns(out)
    \/ AnalyzeWithOllama
    \/ \E out \in Outcomes : OllamaReturns(out)
    \/ Wake

SpecLlm == InitAnalyze /\ [][NextLlm]_vars

Providers == {"OpenRouter", "Ollama"}

\* The elements of a sequence.
Range(seq) == {seq[i] : i \in 1..Len(seq)}

\* analyzeWithProvider has handed ans to analyzeIssues in this step.
Handed(ans) ==
    IF call.plan[call.idx] = "chunk"
    THEN /\ Len(call'.summaries) = Len(call.summaries) + 1
         /\ call'.summaries[Len(call'.summaries)].summary = ans
    ELSE call'.pc = "done" /\ call'.status = 200 /\ call'.answer = ans

Reasons(provider) == {Reason(provider, out) : out \in Outcomes \ {"answer"}}

\* The error names the providers of the sequence, in its order, each with a
\* failure reason of its own.
Names(error, providers) ==
    /\ error.message = "All LLM providers failed"
    /\ Len(error.lines) = Len(providers)
    /\ \A i \in 1..Len(providers) :
          /\ error.lines[i].provider = providers[i]
          /\ error.lines[i].reason \in Reasons(providers[i])

\* C22: whenever analyzeWithProvider fails, the error it throws names OpenRouter
\* and Ollama, in the order they were tried, each with its own failure reason,
\* whether OPENROUTER_API_KEY is set or not.
C22_AggregateNamesBoth ==
    call.status = 500 => Names(call.details, <<"OpenRouter", "Ollama">>)

\* The part of C22 that holds: the error names the providers that were tried,
\* in the order they were tried, each with its own failure reason.
C22_AggregateNamesTried ==
    call.status = 500 =>
        /\ Names(call.details, call.tried)
        /\ call.tried = IF call.key THEN <<"OpenRouter", "Ollama">> ELSE <<"Ollama">>

\* C23: when the last provider fails in a call of analyzeWithProvider, be it
\* the direct call, the call for a chunk or the final call, the analysis ends
\* there: no further call of the router or of a provider, no answer and no
\* summary returned, and the route answers 500 with the aggregate error's
\* message, that of all the failures of that call, as details; nothing follows
\* but a new request.
C23_FailureStopsAnalysis ==
    [][/\ \A out \in Outcomes \ {"answer"} :
              OllamaReturns(out) =>
                  /\ call'.pc = "done" /\ call'.status = 500
                  /\ call'.answer = NoAnswer /\ call'.reply # "analysis"
                  /\ call.op = "analyze" => call'.reply = "Failed to analyze issues"
                  /\ call'.details = AggregateError(call'.errors)
                  /\ Names(call'.details, call.tried)
                  /\ call'.errors[Len(call'.errors)].reason = Reason("Ollama", out)
                  /\ call'.providerCalls = call.providerCalls
                  /\ call'.router = call.router /\ call'.idx = call.idx
                  /\ call'.summaries = call.summaries
       /\ (call.status = 500 /\ call' # call) =>
              /\ call'.providerCalls = 0 /\ call'.router = <<>>
              /\ call'.status # 200]_vars

\* C23 witness: an analyze request whose two chunks were summarized and whose
\* final call failed at both providers has been answered 500 with both
\* failures as details.
C23_Witness ==
    /\ call.op = "analyze" /\ call.pc = "done" /\ call.status = 500
    /\ call.plan = <<"chunk", "chunk", "final">> /\ call.idx = 3
    /\ Len(call.summaries) = 2
    /\ call.reply = "Failed to analyze issues"
    /\ call.details = AggregateError(
           <<[provider |-> "OpenRouter", reason |-> "send failed"],
             [provider |-> "Ollama", reason |-> "Ollama returned empty response"]>>)

\* C24: a text estimated at exactly 40,000 tokens (a quarter of its characters,
\* rounded up) is analyzed directly, a text estimated at 40,001 tokens in
\* chunks.
C24_ThresholdBoundary ==
    call.plan # <<>> =>
        /\ EstimateTokens(call.chars) = TokenThreshold => call.plan = <<"direct">>
        /\ EstimateTokens(call.chars) = TokenThreshold + 1 => call.plan[1] = "chunk"

\* What the code does at the boundary: 39,999 tokens is the last estimate
\* analyzed directly.
C24_BelowThresholdDirect ==
    call.plan # <<>> =>
        /\ EstimateTokens(call.chars) = TokenThreshold - 1 => call.plan = <<"direct">>
        /\ EstimateTokens(call.chars) >= TokenThreshold => call.plan[1] = "chunk"

\* C25: for a text estimated below the threshold analyzeIssues calls
\* analyzeWithProvider once, with the user's prompt and the whole text, calls
\* neither chunkText nor sleep, and returns the answer the router returned.
C25_DirectPath ==
    (call.plan # <<>> /\ EstimateTokens(call.chars) < TokenThreshold) =>
        /\ call.router = <<[prompt |-> [kind |-> "user", i |-> 0, n |-> 0,
                                        user |-> call.body.prompt],
                            text |-> [kind |-> "corpus", i |-> 0, parts |-> <<>>]]>>
        /\ call.splits = 0
        /\ call.delays = <<>> /\ call.wait = 0 /\ call.pc # "sleep"
        /\ call.summaries = <<>>
        /\ call.status = 200 =>
              /\ call.pc = "done" /\ call.reply = "analysis"
              /\ call.answer = [by |-> call.tried[Len(call.tried)], for |-> 1]

\* C25 witness: a text of 39,999 tokens was analyzed with one router call,
\* which Ollama answered.
C25_Witness ==
    /\ call.op = "analyzeIssues" /\ call.pc = "done" /\ call.status = 200
    /\ EstimateTokens(call.chars) = TokenThreshold - 1
    /\ Len(call.router) = 1 /\ call.splits = 0 /\ call.delays = <<>>
    /\ ~call.key
    /\ call.answer = [by |-> "Ollama", for |-> 1]

\* C26: for a text cut into n chunks analyzeIssues calls analyzeWithProvider
\* for chunk 1 to chunk n in this order, call i with chunk i and the instruction
\* for batch i of n, and then once more for the synthesis: n + 1 calls. The
\* final call is made when the n summaries are there; its text is the
\* summaries labelled Batch 1 to Batch n in the order of the chunks, its prompt
\* embeds the user's prompt, and its answer is the result.
C26_ChunkedSequence ==
    Len(call.plan) > 1 =>
        LET n == Len(call.plan) - 1
        IN  /\ call.splits = 1
            /\ Len(call.router) = call.idx /\ call.idx <= n + 1
            /\ Len(call.summaries) <= n
            /\ \A k \in 1..Len(call.summaries) :
                  /\ call.summaries[k].label = k
                  /\ call.summaries[k].summary.for = k
                  /\ call.summaries[k].summary.by \in Providers
            /\ \A i \in 1..Len(call.router) :
                  IF i <= n
                  THEN /\ call.router[i].prompt =
                             [kind |-> "batch", i |-> i, n |-> n, user |-> Undefined]
                       /\ call.router[i].text =
                             [kind |-> "chunk", i |-> i, parts |-> <<>>]
                       /\ Len(call.summaries) >= i - 1
                  ELSE /\ call.router[i].prompt.kind = "final"
                       /\ call.router[i].prompt.user = call.body.prompt
                       /\ call.router[i].text.kind = "summaries"
                       /\ call.router[i].text.parts = call.summaries
                       /\ Len(call.summaries) = n
            /\ call.status = 200 =>
                  /\ Len(call.router) = n + 1
                  /\ call.answer = [by |-> call.tried[Len(call.tried)], for |-> n + 1]

\* C26 witness: two chunks were summarized, the first by Ollama after
\* OpenRouter failed and the second by OpenRouter, and the final call was
\* answered.
C26_Witness ==
    /\ call.op = "analyzeIssues" /\ call.pc = "done" /\ call.status = 200
    /\ call.plan = <<"chunk", "chunk", "final">>
    /\ Len(call.router) = 3
    /\ call.summaries = <<[label |-> 1, summary |-> [by |-> "Ollama", for |-> 1]],
                          [label |-> 2, summary |-> [by |-> "OpenRouter", for |-> 2]]>>
    /\ call.answer.for = 3

\* The delays slept between two chunks.
InterChunk(delays) == {k \in 1..Len(delays) : delays[k] = 2000}

\* C27: the chunks are summarized one after the other and paced. A provider is
\* called only when no provider call is in flight and no delay is being slept;
\* the first provider call for chunk i+1 is made when the summary of chunk i is
\* there and the delay of 2 seconds that follows it has been slept; and for n
\* chunks n-1 such delays are slept, none of them after the last chunk (what
\* follows the last chunk is the delay of 1 second before the final call).
C27_SequentialPaced ==
    [][/\ call'.providerCalls > call.providerCalls =>
              /\ call.inflight = "none" /\ call.pc = "router"
              /\ (call.plan[call.idx] = "chunk" /\ call.idx > 1) =>
                    /\ Len(call.summaries) = call.idx - 1
                    /\ call.delays = [k \in 1..(call.idx - 1) |-> 2000]
       /\ call.pc \in {"sleep", "router", "done"} => call.inflight = "none"
       /\ call.pc = "provider" => call.inflight \in Providers
       /\ (call.idx >= 1 /\ call'.idx > call.idx) =>
              /\ call.pc = "sleep" /\ call'.delays = Append(call.delays, call.wait)
              /\ call.wait = IF call.plan[call'.idx] = "chunk" THEN 2000 ELSE 1000
       /\ Len(call.plan) > 1 =>
              LET n == Len(call.plan) - 1
              IN  /\ Cardinality(InterChunk(call.delays)) <= n - 1
                  /\ InterChunk(call.delays) = 1..Min(Len(call.delays), n - 1)
                  /\ call.plan[call.idx] = "final" =>
                        /\ Cardinality(InterChunk(call.delays)) = n - 1
                        /\ Len(call.delays) = n /\ call.delays[n] = 1000]_vars

\* C27 witness: the first chunk is summarized, the delay of 2 seconds is slept,
\* and Ollama is being called for the second chunk after OpenRouter failed.
C27_Witness ==
    /\ call.pc = "provider" /\ call.inflight = "Ollama"
    /\ call.plan = <<"chunk", "chunk", "final">> /\ call.idx = 2
    /\ Len(call.summaries) = 1 /\ call.delays = <<2000>>
    /\ call.tried = <<"OpenRouter", "Ollama">>


\* ------------------------------------------- two requests, one repository
\* A client asks once for a scan of "a/x" without the fresh flag.
Arrive(p) ==
    /\ resp[p].kind = "none"
    /\ Start(p, "a/x", FALSE)

\* Two clients ask for a scan of the same repository; the steps of the two
\* requests interleave at every await.  GitHub serves every query.
NextTwo ==
    \/ \E p \in Procs :
          \/ Arrive(p)
          \/ ResetDelete(p)
          \/ ResetUpsert(p)
          \/ Clear(p)
          \/ Fetch(p, "none")
          \/ AppendIssue(p)
          \/ Update(p)
          \/ Complete(p)
          \/ SetRetry(p)
    \/ Tick

SpecTwo == Init /\ [][NextTwo]_vars

BothEnded == AllIdle /\ \A p \in Procs : resp[p].kind # "none"

\* C31: when two concurrent scan requests for the same repository have both
\* ended, the counters of the checkpoint agree with the store: issuesFetched
\* is the number of issues stored for the repository.
C31_CountersAgreeWithStore ==
    BothEnded =>
        \A c \in ProgressOf("a/x") :
            c.issuesFetched = Cardinality(IssuesOf("a/x"))


\* ------------------------------------------------- database calls
\* A call of one function of the database layer made outside the scan loop:
\* its position, its arguments, the rows of the repository when it started,
\* what it returned and the error it raised.
DbCall(op, pc, repo, given, before, result, error) ==
    [op |-> op, pc |-> pc, repo |-> repo, given |-> given, before |-> before,
     result |-> result, error |-> error]

CallFree == IF call.op = "none" THEN TRUE ELSE call.pc \in {"done", "replied"}

\* No scan request is working on the repository.
NoScanOf(repo) == \A p \in Procs : req[p].pc = "idle" \/ req[p].repo # repo

\* The issue lists handed to saveIssues: empty, one issue, two issues, the same
\* issue twice, and an issue whose id is null.
GivenIssue(id) ==
    [id |-> id, title |-> 0, body |-> 0, html_url |-> 0, created_at |-> id]

SaveLists ==
    {<<>>, <<GivenIssue(1)>>, <<GivenIssue(1), GivenIssue(2)>>,
     <<GivenIssue(2), GivenIssue(2)>>,
     <<GivenIssue(1), [GivenIssue(2) EXCEPT !.id = Null]>>}

\* BigInt(issue.id) raises TypeError for null.
Convertible(given) == \A i \in 1..Len(given) : given[i].id # Null

\* issues.map(...) of saveIssues: the rows handed to createMany.
RowsOf(repo, given) ==
    [i \in 1..Len(given) |->
        [repo |-> repo, githubId |-> given[i].id, title |-> given[i].title,
         body |-> given[i].body, htmlUrl |-> given[i].html_url,
         createdAt |-> given[i].created_at]]

\* The unique key (repo, githubId) rejects the insert as a whole.
Conflicts(tbl, rows) ==
    \/ \E i, j \in 1..Len(rows) : i # j /\ rows[i].githubId = rows[j].githubId
    \/ \E i \in 1..Len(rows), r \in tbl :
          r.repo = rows[i].repo /\ r.githubId = rows[i].githubId

\* prisma.issue.createMany({ data })
CreateMany(tbl, rows) ==
    IF Conflicts(tbl, rows) THEN tbl ELSE tbl \cup {rows[i] : i \in 1..Len(rows)}

\* saveIssues, first await: the issues of the repository are deleted.
SaveIssuesDelete(repo, given) ==
    /\ CallFree
    /\ NoScanOf(repo)
    /\ issues' = DeleteIssues(issues, repo)
    /\ call' = DbCall("saveIssues", "createMany", repo, given, IssuesOf(repo),
                      0, "none")
    /\ UNCHANGED <<now, srcTotal, srcRev, quotaRemaining, quotaResetAt,
                   scanProgress, req, resp, served, rlResp, persisted>>

\* saveIssues, second await: the list is converted and inserted; lost is the
\* environment's choice that the database has become unreachable.
SaveIssuesCreate(lost) ==
    /\ call.op = "saveIssues" /\ call.pc = "createMany"
    /\ LET rows == RowsOf(call.repo, call.given)
           error == IF ~Convertible(call.given) THEN "TypeError"
                    ELSE IF lost THEN "ConnectionError"
                    ELSE IF Conflicts(issues, rows) THEN "UniqueConstraint"
                    ELSE "none"
       IN  /\ issues' = IF error = "none" THEN CreateMany(issues, rows) ELSE issues
           /\ call' = [call EXCEPT !.pc = "done", !.error = error,
                                   !.result = IF error = "none" THEN Len(rows) ELSE 0]
    /\ UNCHANGED <<now, srcTotal, srcRev, quotaRemaining, quotaResetAt,
                   scanProgress, req, resp, served, rlResp, persisted>>

ProgressOps == {"updateScanProgress", "completeScan", "failScan", "setRateLimitRetry"}

\* prisma.scanProgress.update raises when no row matches the where clause.
UpdateFound(tbl, repo) == \E c \in tbl : c.repo = repo

\* What each of the four updating functions writes.
ProgressWrite(tbl, op, repo) ==
    IF op = "updateScanProgress"
    THEN UpdateScanProgress(tbl, repo, [currentPage |-> 1, issuesFetched |-> 1])
    ELSE IF op = "completeScan" THEN CompleteScan(tbl, repo, 1)
    ELSE IF op = "failScan" THEN FailScan(tbl, repo, "Error")
    ELSE SetRateLimitRetry(tbl, repo, now + RateWindow)

\* updateScanProgress, completeScan, failScan or setRateLimitRetry is called
\* for a repository.
ProgressCall(op, repo) ==
    /\ CallFree
    /\ NoScanOf(repo)
    /\ scanProgress' = ProgressWrite(scanProgress, op, repo)
    /\ call' = DbCall(op, "done", repo, <<>>, {}, 0,
                      IF UpdateFound(scanProgress, repo) THEN "none"
                      ELSE "RecordNotFound")
    /\ UNCHANGED <<now, srcTotal, srcRev, quotaRemaining, quotaResetAt, issues,
                   req, resp, served, rlResp, persisted>>

\* prisma.scanProgress.deleteMany({ where: { repo } })
DeleteProgress(tbl, repo) == {c \in tbl : c.repo # repo}

\* deleteScanProgress
DeleteScanProgress(repo) ==
    /\ CallFree
    /\ NoScanOf(repo)
    /\ scanProgress' = DeleteProgress(scanProgress, repo)
    /\ call' = DbCall("deleteScanProgress", "done", repo, <<>>, {}, 0, "none")
    /\ served' = [served EXCEPT ![repo] = NoServed]
    /\ rlResp' = [rlResp EXCEPT ![repo] = NoResp]
    /\ persisted' = [persisted EXCEPT ![repo] = {}]
    /\ UNCHANGED <<now, srcTotal, srcRev, quotaRemaining, quotaResetAt, issues,
                   req, resp>>

\* createOrResetScanProgress called on its own, first await.
CreateOrResetDelete(repo) ==
    /\ CallFree
    /\ NoScanOf(repo)
    /\ issues' = DeleteIssues(issues, repo)
    /\ call' = DbCall("createOrResetScanProgress", "upsert", repo, <<>>, {}, 0,
                      "none")
    /\ UNCHANGED <<now, srcTotal, srcRev, quotaRemaining, quotaResetAt,
                   scanProgress, req, resp, served, rlResp, persisted>>

\* createOrResetScanProgress called on its own, second await.
CreateOrResetUpsert ==
    /\ call.op = "createOrResetScanProgress" /\ call.pc = "upsert"
    /\ scanProgress' = CreateOrResetRow(scanProgress, call.repo)
    /\ call' = [call EXCEPT !.pc = "done"]
    /\ served' = [served EXCEPT ![call.repo] = NoServed]
    /\ rlResp' = [rlResp EXCEPT ![call.repo] = NoResp]
    /\ persisted' = [persisted EXCEPT ![call.repo] = {}]
    /\ UNCHANGED <<now, srcTotal, srcRev, quotaRemaining, quotaResetAt, issues,
                   req, resp>>

\* A request scans "b/y" while the database functions are called for "a/x".
NextDb ==
    \/ ScanStep("p1", {"b/y"})
    \/ SaveIssuesDelete("a/x", <<GivenIssue(1)>>)
    \/ \E lost \in BOOLEAN : SaveIssuesCreate(lost)
    \/ CreateOrResetDelete("a/x")
    \/ CreateOrResetUpsert
    \/ \E op \in ProgressOps : ProgressCall(op, "a/x")
    \/ DeleteScanProgress("a/x")

SpecDb == Init /\ [][NextDb]_vars


\* What the two tables hold for a repository.
Rows(repo) == <<IssuesOf(repo), ProgressOf(repo)>>

\* C32: scans of different repositories are independent: a step of a scan
\* request for one repository, and a step of saveIssues, createOrResetScanProgress,
\* updateScanProgress, completeScan, failScan, setRateLimitRetry or
\* deleteScanProgress called for one repository, leaves the stored issues and the
\* checkpoint of every other repository unchanged.
C32_ScansIndependent ==
    [][/\ \A p \in Procs :
            req'[p] # req[p] =>
                LET A == IF req[p].pc = "idle" THEN req'[p].repo ELSE req[p].repo
                IN  \A B \in Repos \ {A} : Rows(B)' = Rows(B)
       /\ call' # call =>
            \A B \in Repos \ {call'.repo} : Rows(B)' = Rows(B)]_vars

\* C32 witness: saveIssues for "a/x" is between its delete and its insert while
\* the scan of "b/y" is between its upserts and its checkpoint write, and both
\* repositories have rows that the other's steps could have touched.
C32_Witness ==
    /\ call.op = "saveIssues" /\ call.pc = "createMany"
    /\ ProgressOf("a/x") # {}
    /\ req["p1"].pc = "update" /\ req["p1"].repo = "b/y"
    /\ IssuesOf("b/y") # {} /\ ProgressOf("b/y") # {}


\* ------------------------------------------------- the route POST /scan
\* The route of scan.ts: the issues it fetched are handed to saveIssues, and
\* the response is built from what saveIssues did.  The catch of the route
\* turns any error into the 500 response.
ScanRouteResponse(c) ==
    IF c.error = "none"
    THEN [code |-> 200,
          body |-> [repo |-> c.repo, issues_fetched |-> Len(c.given),
                    cached_successfully |-> TRUE]]
    ELSE [code |-> 500,
          body |-> [error |-> "Failed to scan repository", details |-> c.error]]

ScanRouteReplies ==
    /\ call.op = "saveIssues" /\ call.pc = "done"
    /\ call' = [op |-> "POST /scan", pc |-> "replied", repo |-> call.repo,
                given |-> call.given, before |-> call.before,
                result |-> call.result, error |-> call.error,
                response |-> ScanRouteResponse(call)]
    /\ UNCHANGED <<now, srcTotal, srcRev, quotaRemaining, quotaResetAt, issues,
                   scanProgress, req, resp, served, rlResp, persisted>>

\* Requests to POST /scan, one at a time; given is what the route fetched.
NextSave ==
    \/ \E repo \in Repos, given \in SaveLists : SaveIssuesDelete(repo, given)
    \/ \E lost \in BOOLEAN : SaveIssuesCreate(lost)
    \/ ScanRouteReplies

SpecSave == Init /\ [][NextSave]_vars

Replied == call.op = "POST /scan" /\ call.pc = "replied"

\* The fields the result of a scan is to carry.
ResultFields == {"status", "currentPage", "issuesFetched", "message"}

\* C33: every result the scan operation returns carries the status, the current
\* page count, the cumulative record count and a message.
C33_ResultFields ==
    (IF Replied THEN call.response.code = 200 ELSE FALSE) =>
        ResultFields \subseteq DOMAIN call.response.body


\* ------------------------------------------------- the status query
\* Variant of getIssueCount without the where clause.
GetIssueCountAll(tbl, repo) == Cardinality(tbl)

\* getIssueCount: prisma.issue.count({ where: { repo } })
GetIssueCount(tbl, repo) == Cardinality({r \in tbl : r.repo = repo})

NoStatus == [status |-> "none", currentPage |-> 0, issuesFetched |-> 0]

\* The status query, first await: getScanProgress.  A checkpoint is reported
\* as it is stored, and as rate-limited only inside its retry window.
StatusGetProgress(repo) ==
    /\ CallFree
    /\ LET found == GetScanProgress(repo)
       IN  call' = [op |-> "status", repo |-> repo, progress |-> found,
                    pc |-> IF found = {} THEN "getIssueCount" ELSE "done",
                    reply |-> IF found = {} THEN NoStatus
                              ELSE LET c == CHOOSE c \in found : TRUE
                                   IN  [status |-> IF InRetryWindow(c)
                                                   THEN "rate_limited"
                                                   ELSE c.status,
                                        currentPage |-> c.currentPage,
                                        issuesFetched |-> c.issuesFetched]]
    /\ UNCHANGED <<now, srcTotal, srcRev, quotaRemaining, quotaResetAt, issues,
                   scanProgress, req, resp, served, rlResp, persisted>>

\* The status query without a checkpoint, second await: getIssueCount.  Stored
\* issues are reported as a completed scan of that many issues.
StatusGetIssueCount ==
    /\ call.op = "status" /\ call.pc = "getIssueCount"
    /\ LET count == GetIssueCount(issues, call.repo)
       IN  call' = [call EXCEPT !.pc = "done",
                        !.reply = IF count > 0
                                  THEN [status |-> "completed", currentPage |-> 0,
                                        issuesFetched |-> count]
                                  ELSE [status |-> "not_started", currentPage |-> 0,
                                        issuesFetched |-> 0]]
    /\ UNCHANGED <<now, srcTotal, srcRev, quotaRemaining, quotaResetAt, issues,
                   scanProgress, req, resp, served, rlResp, persisted>>

\* The store is filled by POST /scan, which keeps no checkpoint, and "a/x" is
\* given and taken a checkpoint; the status of either repository is queried.
NextStatus ==
    \/ \E repo \in Repos, given \in SaveLists : SaveIssuesDelete(repo, given)
    \/ \E lost \in BOOLEAN : SaveIssuesCreate(lost)
    \/ CreateOrResetDelete("a/x")
    \/ CreateOrResetUpsert
    \/ \E op \in ProgressOps : ProgressCall(op, "a/x")
    \/ DeleteScanProgress("a/x")
    \/ \E repo \in Repos : StatusGetProgress(repo)
    \/ StatusGetIssueCount
    \/ Tick

SpecStatus == Init /\ [][NextStatus]_vars

IsCreateOrReset(repo) ==
    \/ \E p \in Procs : /\ req[p].pc = "resetUpsert" /\ req[p].repo = repo
                        /\ req'[p].pc = "clear"
    \/ /\ call.op = "createOrResetScanProgress" /\ call.repo = repo
       /\ call.pc = "upsert" /\ call'.pc = "done"

\* The step is a call of deleteScanProgress for the repository.
IsDeleteScanProgress(repo) ==
    call' # call /\ call'.op = "deleteScanProgress" /\ call'.repo = repo

\* The step is a call of one of the four updating functions.
IsProgressCall == call' # call /\ call'.op \in ProgressOps

\* C35: no step leaves a repository with more than one checkpoint; a
\* checkpoint appears only in a step of createOrResetScanProgress and
\* disappears only in a step of deleteScanProgress; and updateScanProgress, completeScan, failScan and
\* setRateLimitRetry called for a repository without a checkpoint raise an
\* error and leave the checkpoint table as it was.
C35_CheckpointLifecycle ==
    [][/\ \A repo \in Repos :
            /\ Cardinality(ProgressOf(repo)') <= 1
            /\ (ProgressOf(repo) = {} /\ ProgressOf(repo)' # {})
                  => IsCreateOrReset(repo)
            /\ (ProgressOf(repo) # {} /\ ProgressOf(repo)' = {})
                  => IsDeleteScanProgress(repo)
       /\ (IsProgressCall /\ ProgressOf(call'.repo) = {})
             => /\ call'.error # "none"
                /\ scanProgress' = scanProgress]_vars

\* C35 witness: failScan was called for "a/x", which has no checkpoint, and
\* raised; "b/y" has the checkpoint its scan created.
C35_Witness ==
    /\ call.op = "failScan" /\ call.repo = "a/x"
    /\ call.error = "RecordNotFound"
    /\ ProgressOf("a/x") = {}
    /\ Cardinality(ProgressOf("b/y")) = 1


\* ------------------------------------------------- saveIssues
\* saveIssues has returned or raised.
SaveEnded == call.op = "saveIssues" /\ call.pc = "done"

\* C36: when saveIssues has raised an error, the issues that were stored for
\* the repository when it was called are stored still.
C36_SaveAllOrNothing ==
    (SaveEnded /\ call.error # "none") => IssuesOf(call.repo) = call.before


\* ------------------------------------------------- analyze beside a scan
\* C37: an analyze request for a repository that has stored issues reads a
\* non-empty set of issues whatever a concurrent scan does: a request whose
\* first read, hasRepoBeenScanned, found at least one stored issue is never
\* answered 'No open issues found in this repository.' by its second read.
C37_AnalyzeReadsNonEmpty ==
    ~(/\ call.op = "analyze" /\ call.pc = "done"
      /\ call.reads = 2
      /\ call.reply = "No open issues found in this repository.")


\* ------------------------------------------------- rate limit waits
Max(a, b) == IF a > b THEN a ELSE b

NoOutcome ==
    [kind |-> "none", issues |-> <<>>, hasNextPage |-> FALSE,
     endCursor |-> NullCursor, resetAt |-> Null, waitMs |-> 0]

\* What rateLimit.get answers: the quota of the REST API.
RateLimitGet == [remaining |-> QuotaBefore, limit |-> QuotaLimit, reset |-> ResetBefore]

\* checkRateLimit, for an answer of rateLimit.get.
CheckRateLimit(core) ==
    [remaining |-> core.remaining, limit |-> core.limit, resetAt |-> core.reset,
     waitMs |-> Max(0, core.reset - now)]

\* checkRateLimit when rateLimit.get fails: the fixed fallback.
CheckRateLimitFallback ==
    [remaining |-> 10, limit |-> 60, resetAt |-> now + RateWindow,
     waitMs |-> RateWindow]

\* The guard of fetchIssuePage, before the page is requested.
FetchIssuePageGuard(rateLimit) ==
    IF rateLimit.remaining < RateLimitThreshold
    THEN [NoOutcome EXCEPT !.kind = "RateLimitError",
                           !.resetAt = rateLimit.resetAt,
                           !.waitMs = rateLimit.waitMs]
    ELSE [NoOutcome EXCEPT !.kind = "page"]

\* A call whose request is on its way to GitHub or whose response is on its
\* way back: what GitHub answered, and the outcome once it has arrived, with
\* the instant at which the outcome was computed.
ApiCall(op, pc, sent, out) ==
    [op |-> op, pc |-> pc, repo |-> "b/y", sent |-> sent, out |-> out, at |-> now]

\* fetchIssuesWithCursor sends the query; GitHub answers it at once, on its
\* own clock, and the quota is spent.
SendQuery ==
    /\ CallFree
    /\ LET response == Graphql("b/y", NullCursor, "none")
       IN  /\ quotaRemaining' = response.remaining
           /\ quotaResetAt' = response.resetAt
           /\ call' = ApiCall("fetchIssuesWithCursor", "await", response, NoOutcome)
    /\ UNCHANGED <<now, srcTotal, srcRev, issues, scanProgress, req, resp, served,
                   rlResp, persisted>>

\* The response arrives and the rest of fetchIssuesWithCursor runs.
ReceiveResponse ==
    /\ call.op = "fetchIssuesWithCursor" /\ call.pc = "await"
    /\ call' = ApiCall(call.op, "done", call.sent, FetchIssuesWithCursor(call.sent))
    /\ UNCHANGED <<now, srcTotal, srcRev, quotaRemaining, quotaResetAt, issues,
                   scanProgress, req, resp, served, rlResp, persisted>>

\* fetchIssuePage sends rateLimit.get; failed is the environment's choice that
\* the request fails.
SendRateLimitGet(failed) ==
    /\ CallFree
    /\ call' = ApiCall("fetchIssuePage", "await",
                       [status |-> IF failed THEN "error" ELSE "ok",
                        core |-> RateLimitGet], NoOutcome)
    /\ UNCHANGED <<now, srcTotal, srcRev, quotaRemaining, quotaResetAt, issues,
                   scanProgress, req, resp, served, rlResp, persisted>>

\* The answer arrives: checkRateLimit returns and the guard of fetchIssuePage
\* is evaluated.
ReceiveRateLimit ==
    /\ call.op = "fetchIssuePage" /\ call.pc = "await"
    /\ LET rateLimit == IF call.sent.status = "ok"
                        THEN CheckRateLimit(call.sent.core)
                        ELSE CheckRateLimitFallback
       IN  call' = ApiCall(call.op, "done", call.sent, FetchIssuePageGuard(rateLimit))
    /\ UNCHANGED <<now, srcTotal, srcRev, quotaRemaining, quotaResetAt, issues,
                   scanProgress, req, resp, served, rlResp, persisted>>

\* Calls of the two fetchers, with time passing while a request is in flight.
NextWait ==
    \/ SendQuery
    \/ ReceiveResponse
    \/ \E failed \in BOOLEAN : SendRateLimitGet(failed)
    \/ ReceiveRateLimit
    \/ Tick

SpecWait == Init /\ [][NextWait]_vars

Raised == IF call.op \in {"fetchIssuesWithCursor", "fetchIssuePage"}
          THEN call.pc = "done" /\ call.out.kind = "RateLimitError"
          ELSE FALSE

\* C38: the wait carried by a RateLimitError is max(0, reset instant - now),
\* and so never negative, whichever path raised the error.
C38_WaitIsClampedDifference ==
    Raised => call.out.waitMs = Max(0, call.out.resetAt - call.at)

====
